---- MODULE Spec2Model ----
(***************************************************************************)
(* GradeBook Analyzer (src/gradebook.py): the menu loop, the two score     *)
(* acquisition paths, the statistics and grading functions and the four    *)
(* report printers.                                                        *)
(*                                                                         *)
(* Text is a sequence of one-character strings, so that strip(), lower()   *)
(* and int() are computed character by character.  A dict is a sequence    *)
(* of [name, mark] records with pairwise distinct names, in insertion      *)
(* order.  A number is an exact rational [num, den, float].                *)
(***************************************************************************)
EXTENDS Integers, Sequences, FiniteSets, TLC

VARIABLES
    pc,          \* position in main / manual_data_entry / load_data_from_csv
    exit_code,   \* argument of sys.exit, -1 while the process runs
    line,        \* the last line returned by input()
    choice,      \* main: choice
    marks_data,  \* main: marks_data (unbound before the first assignment)
    marks,       \* manual_data_entry / load_data_from_csv: marks
    name,        \* manual_data_entry: name
    rows,        \* load_data_from_csv: rows the reader has not yielded yet
    rowno,       \* load_data_from_csv: number of the next row of the file
    file,        \* the file the entered filename resolves to
    out,         \* lines printed since the last menu choice was read
    last_valid,  \* history: name -> last valid mark typed for it in this entry
    acquired,    \* history: what the acquisition of this menu cycle returned
    ret          \* return value of a function called directly

vars == <<pc, exit_code, line, choice, marks_data, marks, name, rows, rowno,
          file, out, last_valid, acquired, ret>>

(***************************************************************************)
(* Bounds of the model.                                                    *)
(***************************************************************************)
MaxRows == 2
MaxRetries == 2
MaxStudents == 4

(***************************************************************************)
(* Text: str.strip(), str.lower(), int(str).                               *)
(***************************************************************************)
Whitespace == {" ", "\t"}

Digits == <<"0", "1", "2", "3", "4", "5", "6", "7", "8", "9">>

UpperCase == <<"A", "B", "C", "D", "E", "F", "G", "H", "I", "J", "K", "L", "M",
               "N", "O", "P", "Q", "R", "S", "T", "U", "V", "W", "X", "Y", "Z">>

LowerCase == <<"a", "b", "c", "d", "e", "f", "g", "h", "i", "j", "k", "l", "m",
               "n", "o", "p", "q", "r", "s", "t", "u", "v", "w", "x", "y", "z">>

RECURSIVE LStrip(_)
LStrip(s) ==
    IF s = <<>> THEN s
    ELSE IF Head(s) \in Whitespace THEN LStrip(Tail(s)) ELSE s

RECURSIVE RStrip(_)
RStrip(s) ==
    IF s = <<>> THEN s
    ELSE IF s[Len(s)] \in Whitespace THEN RStrip(SubSeq(s, 1, Len(s) - 1)) ELSE s

Strip(s) == RStrip(LStrip(s))

LowerChar(c) ==
    IF \E i \in 1..26 : UpperCase[i] = c
    THEN LowerCase[CHOOSE i \in 1..26 : UpperCase[i] = c]
    ELSE c

Lower(s) == [i \in 1..Len(s) |-> LowerChar(s[i])]

IsDigit(c) == \E i \in 1..10 : Digits[i] = c

DigitVal(c) == (CHOOSE i \in 1..10 : Digits[i] = c) - 1

\* The digit part of an int() literal: digits, single underscores between them.
ValidDigits(b) ==
    /\ Len(b) > 0
    /\ IsDigit(b[1])
    /\ IsDigit(b[Len(b)])
    /\ \A i \in 1..Len(b) : IsDigit(b[i]) \/ b[i] = "_"
    /\ \A i \in 1..(Len(b) - 1) : ~(b[i] = "_" /\ b[i + 1] = "_")

RECURSIVE DigitsValue(_, _)
DigitsValue(b, acc) ==
    IF b = <<>> THEN acc
    ELSE IF Head(b) = "_" THEN DigitsValue(Tail(b), acc)
    ELSE DigitsValue(Tail(b), 10 * acc + DigitVal(Head(b)))

\* int(text): [ok |-> FALSE] stands for ValueError.
ParseInt(text) ==
    LET s == Strip(text)
        signed == s # <<>> /\ Head(s) \in {"+", "-"}
        body == IF signed THEN Tail(s) ELSE s
        mag == DigitsValue(body, 0)
    IN  IF ValidDigits(body)
        THEN [ok |-> TRUE, val |-> IF signed /\ Head(s) = "-" THEN 0 - mag ELSE mag]
        ELSE [ok |-> FALSE, val |-> 0]

(***************************************************************************)
(* Dicts in insertion order.                                               *)
(***************************************************************************)
Keys(d) == {d[i].name : i \in 1..Len(d)}

Values(d) == [i \in 1..Len(d) |-> d[i].mark]

Lookup(d, k) == d[CHOOSE i \in 1..Len(d) : d[i].name = k].mark

\* A list of pairs instead of a dict: every assignment appends.
DictSet_append(d, k, v) == Append(d, [name |-> k, mark |-> v])

\* d[k] = v
DictSet(d, k, v) ==
    IF k \in Keys(d)
    THEN [i \in 1..Len(d) |-> IF d[i].name = k THEN [name |-> k, mark |-> v] ELSE d[i]]
    ELSE Append(d, [name |-> k, mark |-> v])

Unbound == [state |-> "unbound", items |-> <<>>]
NoneVal == [state |-> "None", items |-> <<>>]
Dict(d) == [state |-> "dict", items |-> d]

\* Truth value of a dict-or-None: None and the empty dict are false.
Truthy(v) == v.state = "dict" /\ Len(v.items) > 0

InRange_upper_only(mark) == mark <= 100

\* 0 <= mark <= 100
InRange(mark) == 0 <= mark /\ mark <= 100

(***************************************************************************)
(* Numbers: ints and floats as exact rationals in lowest terms.            *)
(***************************************************************************)
RECURSIVE GCD(_, _)
GCD(a, b) == IF b = 0 THEN a ELSE GCD(b, a % b)

Abs(n) == IF n < 0 THEN 0 - n ELSE n

IntNum(n) == [num |-> n, den |-> 1, float |-> FALSE]

\* a / b, true division (b > 0)
TrueDiv(a, b) ==
    LET g == GCD(Abs(a), b)
    IN  [num |-> a \div g, den |-> b \div g, float |-> TRUE]

FloatZero == [num |-> 0, den |-> 1, float |-> TRUE]

\* f"{q:.2f}" for q >= 0: the number of hundredths, ties to even.
Format2f(q) ==
    LET n == 100 * q.num
        lo == n \div q.den
        twice == 2 * (n % q.den)
    IN  IF twice > q.den \/ (twice = q.den /\ lo % 2 = 1) THEN lo + 1 ELSE lo

RECURSIVE SumSeq(_)
SumSeq(s) == IF s = <<>> THEN 0 ELSE Head(s) + SumSeq(Tail(s))

RECURSIVE Insert(_, _)
Insert(x, s) ==
    IF s = <<>> THEN <<x>>
    ELSE IF x < Head(s) THEN <<x>> \o s
    ELSE <<Head(s)>> \o Insert(x, Tail(s))

\* sorted(values), ascending
RECURSIVE Sorted(_)
Sorted(s) == IF s = <<>> THEN s ELSE Insert(s[Len(s)], Sorted(SubSeq(s, 1, Len(s) - 1)))

(***************************************************************************)
(* Statistics (Task 3).                                                    *)
(***************************************************************************)
calculate_average(marks_dict) ==
    IF Len(marks_dict) = 0 THEN FloatZero
    ELSE TrueDiv(SumSeq(Values(marks_dict)), Len(marks_dict))

calculate_median_odd_only(marks_dict) ==
    IF Len(marks_dict) = 0 THEN FloatZero
    ELSE LET sorted_marks == Sorted(Values(marks_dict))
             middle_index == Len(sorted_marks) \div 2
         IN  IntNum(sorted_marks[middle_index + 1])

\* Python indexes from 0: sorted_marks[k] is sorted_marks[k + 1] here.
calculate_median(marks_dict) ==
    IF Len(marks_dict) = 0 THEN FloatZero
    ELSE LET sorted_marks == Sorted(Values(marks_dict))
             n == Len(sorted_marks)
             middle_index == n \div 2
         IN  IF n % 2 = 1
             THEN IntNum(sorted_marks[middle_index + 1])
             ELSE TrueDiv(sorted_marks[middle_index] + sorted_marks[middle_index + 1], 2)

RECURSIVE MaxSeq(_)
MaxSeq(s) ==
    IF Len(s) = 1 THEN s[1]
    ELSE LET m == MaxSeq(Tail(s)) IN IF Head(s) > m THEN Head(s) ELSE m

RECURSIVE MinSeq(_)
MinSeq(s) ==
    IF Len(s) = 1 THEN s[1]
    ELSE LET m == MinSeq(Tail(s)) IN IF Head(s) < m THEN Head(s) ELSE m

find_max_score(marks_dict) ==
    IF Len(marks_dict) = 0 THEN 0 ELSE MaxSeq(Values(marks_dict))

find_min_score(marks_dict) ==
    IF Len(marks_dict) = 0 THEN 0 ELSE MinSeq(Values(marks_dict))

(***************************************************************************)
(* Grade assignment (Task 4).                                              *)
(***************************************************************************)
GradeLetters == <<"A", "B", "C", "D", "F">>

assign_grade_strict(score) ==
    IF score > 90 THEN "A"
    ELSE IF score > 80 THEN "B"
    ELSE IF score > 70 THEN "C"
    ELSE IF score > 60 THEN "D"
    ELSE "F"

assign_grade(score) ==
    IF score >= 90 THEN "A"
    ELSE IF score >= 80 THEN "B"
    ELSE IF score >= 70 THEN "C"
    ELSE IF score >= 60 THEN "D"
    ELSE "F"

EmptyDistribution == [g \in {"A", "B", "C", "D", "F"} |-> 0]

\* The loop over marks_dict.items(), from record i on.
RECURSIVE GradeLoop(_, _, _, _)
GradeLoop(marks_dict, i, grades_dict, grade_distribution) ==
    IF i > Len(marks_dict)
    THEN [grades |-> grades_dict, distribution |-> grade_distribution]
    ELSE LET grade == assign_grade(marks_dict[i].mark)
         IN  GradeLoop(marks_dict, i + 1,
                       Append(grades_dict, [name |-> marks_dict[i].name, grade |-> grade]),
                       [grade_distribution EXCEPT ![grade] = @ + 1])

calculate_grades_and_distribution_set(marks_dict) ==
    LET r == GradeLoop(marks_dict, 1, <<>>, EmptyDistribution)
    IN  [grades |-> r.grades,
         distribution |-> [g \in {"A", "B", "C", "D", "F"} |->
                              IF r.distribution[g] > 0 THEN 1 ELSE 0]]

calculate_grades_and_distribution(marks_dict) ==
    GradeLoop(marks_dict, 1, <<>>, EmptyDistribution)

\* grades_dict.get(student, 'N/A')
GradeGet(grades_dict, student) ==
    IF \E i \in 1..Len(grades_dict) : grades_dict[i].name = student
    THEN grades_dict[CHOOSE i \in 1..Len(grades_dict) : grades_dict[i].name = student].grade
    ELSE "N/A"

(***************************************************************************)
(* Reports (Tasks 5 and 6): each returns the lines it prints.              *)
(***************************************************************************)
print_analysis_summary(marks_dict) ==
    IF Len(marks_dict) = 0
    THEN <<[kind |-> "summary_no_data"]>>
    ELSE <<[kind |-> "summary",
            count |-> Len(marks_dict),
            avg |-> Format2f(calculate_average(marks_dict)),
            median |-> Format2f(calculate_median(marks_dict)),
            maximum |-> find_max_score(marks_dict),
            minimum |-> find_min_score(marks_dict)]>>

print_grade_distribution(distribution) ==
    <<[kind |-> "distribution",
       rows |-> [i \in 1..5 |-> [grade |-> GradeLetters[i],
                                 count |-> distribution[GradeLetters[i]]]]]>>

PassMark == 40

passed_students_exclusive(marks_dict) ==
    SelectSeq(marks_dict, LAMBDA r : r.mark > PassMark)

passed_students(marks_dict) ==
    SelectSeq(marks_dict, LAMBDA r : r.mark >= PassMark)

failed_students(marks_dict) ==
    SelectSeq(marks_dict, LAMBDA r : r.mark < PassMark)

print_pass_fail_summary(marks_dict) ==
    <<[kind |-> "pass_fail",
       passed |-> Len(passed_students(marks_dict)),
       failed |-> Len(failed_students(marks_dict)),
       failed_list |-> failed_students(marks_dict)]>>

print_results_table(marks_dict, grades_dict) ==
    IF Len(marks_dict) = 0 THEN <<>>
    ELSE <<[kind |-> "table",
            rows |-> [i \in 1..Len(marks_dict) |->
                         [name |-> marks_dict[i].name,
                          mark |-> marks_dict[i].mark,
                          grade |-> GradeGet(grades_dict, marks_dict[i].name)]]]>>

(***************************************************************************)
(* Inputs: lines typed at the prompts and files on disk.                   *)
(***************************************************************************)
ChoiceInputs ==
    { <<" ", "1">>, <<"2">>, <<"3", " ">>, <<"4">>, <<>> }

NameInputs ==
    { <<" ", "A", " ">>, <<"B">>, <<" ">>, <<" ", "D", "o", "n", "e">> }

MarkInputs ==
    { <<"9", "5">>, <<" ", "3", "9", " ">>, <<"1", "0", "1">>, <<"-", "1">>,
      <<"4", "0", ".", "5">> }

Eve == <<"E", "v", "e">>
Finn == <<"F", "i", "n", "n">>
Gus == <<"G", "u", "s">>

HeaderRow == << <<"N", "a", "m", "e">>, <<"M", "a", "r", "k">> >>

RowPool ==
    { <<Gus, <<"7", "7">> >>,
      <<Eve, <<"1", "0", "1">> >>,
      <<Finn, <<"a", "b", "c">> >>,
      << <<" ", "G", "u", "s">>, <<" ", "4", "0", " ">>, <<"x">> >>,
      <<Gus>>,
      <<>> }

RECURSIVE SeqsUpTo(_, _)
SeqsUpTo(S, n) ==
    IF n = 0 THEN {<<>>}
    ELSE LET shorter == SeqsUpTo(S, n - 1)
         IN  shorter \cup {Append(q, x) : q \in shorter, x \in S}

ScenarioRows ==
    <<HeaderRow, <<Eve, <<"1", "0", "1">> >>, <<Finn, <<"a", "b", "c">> >>,
      <<Gus, <<"7", "7">> >> >>

\* A file: how open() ends, the rows csv.reader yields, and the number of the
\* row at which reading raises (0: reading never raises).
Files ==
    UNION {{[status |-> "ok", rows |-> <<HeaderRow>> \o body, failAt |-> k] :
                k \in {0, Len(body) + 1}} : body \in SeqsUpTo(RowPool, MaxRows)}
    \cup {[status |-> "ok", rows |-> ScenarioRows, failAt |-> 0],
          [status |-> "ok", rows |-> <<>>, failAt |-> 0],
          [status |-> "FileNotFoundError", rows |-> <<>>, failAt |-> 0],
          [status |-> "PermissionError", rows |-> <<>>, failAt |-> 0]}

NoFile == [status |-> "none", rows |-> <<>>, failAt |-> 0]

(***************************************************************************)
(* Exceptions.                                                             *)
(***************************************************************************)
\* The classes raised here that derive from Exception.
ExceptionClasses ==
    {"FileNotFoundError", "PermissionError", "StopIteration", "UnicodeDecodeError",
     "ValueError"}

load_handler_oserror_only(exc) ==
    IF exc = "FileNotFoundError" THEN "error_not_found"
    ELSE IF exc = "PermissionError" THEN "error_unexpected"
    ELSE "propagate"

\* The except clauses of load_data_from_csv, in order.
load_handler(exc) ==
    IF exc = "FileNotFoundError" THEN "error_not_found"
    ELSE IF exc \in ExceptionClasses THEN "error_unexpected"
    ELSE "propagate"

(***************************************************************************)
(* main: the part of the loop body after the acquisition.                  *)
(***************************************************************************)
Reports(md) ==
    LET gd == calculate_grades_and_distribution(md)
    IN  print_analysis_summary(md)
        \o print_grade_distribution(gd.distribution)
        \o print_pass_fail_summary(md)
        \o print_results_table(md, gd.grades)

main_analyze(v) ==
    IF Truthy(v)
    THEN IF ~Truthy(v)
         THEN <<[kind |-> "no_data"]>>
         ELSE Reports(v.items)
    ELSE <<>>

(***************************************************************************)
(* The program.                                                            *)
(***************************************************************************)
Init ==
    /\ pc = "menu"
    /\ exit_code = -1
    /\ line = <<>>
    /\ choice = <<>>
    /\ marks_data = Unbound
    /\ marks = <<>>
    /\ name = <<>>
    /\ rows = <<>>
    /\ rowno = 0
    /\ file = NoFile
    /\ out = <<>>
    /\ last_valid = <<>>
    /\ acquired = Unbound
    /\ ret = [fn |-> "none"]

Msg(k) == [kind |-> k]

\* An acquisition returns v to main, which runs the rest of the loop body
\* and prints the menu again.  printed: the lines printed so far in the cycle.
ReturnToMain(v, printed) ==
    /\ marks_data' = v
    /\ acquired' = v
    /\ out' = printed \o main_analyze(v)
    /\ pc' = "menu"
    /\ marks' = <<>>
    /\ name' = <<>>
    /\ rows' = <<>>
    /\ rowno' = 0

\* An exception exc leaves the try block of load_data_from_csv.
LoadRaises(exc, printed) ==
    LET h == load_handler(exc)
    IN  IF h = "propagate"
        THEN /\ pc' = "crashed"
             /\ exit_code' = 1
             /\ out' = Append(printed, Msg("traceback"))
             /\ UNCHANGED <<marks_data, acquired, marks, name, rows, rowno>>
        ELSE /\ ReturnToMain(NoneVal, Append(printed, Msg(h)))
             /\ UNCHANGED exit_code

\* choice == '1': manual_data_entry() starts.
ChooseManual(text) ==
    /\ pc = "menu"
    /\ Strip(text) = <<"1">>
    /\ line' = text
    /\ choice' = Strip(text)
    /\ marks' = <<>>
    /\ last_valid' = <<>>
    /\ acquired' = Unbound
    /\ file' = NoFile
    /\ out' = <<>>
    /\ pc' = "name_prompt"
    /\ UNCHANGED <<exit_code, marks_data, name, rows, rowno, ret>>

ErrorCount(printed) ==
    Cardinality({i \in 1..Len(printed) : printed[i].kind \in {"mark_range", "mark_invalid"}})

\* The name prompt of manual_data_entry.
EnterName(text) ==
    /\ pc = "name_prompt"
    /\ line' = text
    /\ LET nm == Strip(text)
       IN  IF Lower(nm) = <<"d", "o", "n", "e">>
           THEN ReturnToMain(Dict(marks), out)
           ELSE IF nm = <<>>
           THEN /\ name' = nm
                /\ UNCHANGED <<pc, marks_data, acquired, out, marks, rows, rowno>>
           ELSE /\ name' = nm
                /\ pc' = "mark_prompt"
                /\ UNCHANGED <<marks_data, acquired, out, marks, rows, rowno>>
    /\ UNCHANGED <<exit_code, choice, file, last_valid, ret>>

\* The mark prompt of manual_data_entry.
EnterMark(text) ==
    /\ pc = "mark_prompt"
    /\ line' = text
    /\ LET p == ParseInt(text)
       IN  IF p.ok
           THEN IF InRange(p.val)
                THEN /\ marks' = DictSet(marks, name, p.val)
                     /\ last_valid' = [k \in (DOMAIN last_valid) \cup {name} |->
                                          IF k = name THEN p.val ELSE last_valid[k]]
                     /\ pc' = "name_prompt"
                     /\ UNCHANGED out
                ELSE /\ ErrorCount(out) < MaxRetries
                     /\ out' = Append(out, Msg("mark_range"))
                     /\ UNCHANGED <<marks, last_valid, pc>>
           ELSE /\ ErrorCount(out) < MaxRetries
                /\ out' = Append(out, Msg("mark_invalid"))
                /\ UNCHANGED <<marks, last_valid, pc>>
    /\ UNCHANGED <<exit_code, choice, marks_data, name, rows, rowno, file, acquired, ret>>

\* choice == '2': the filename is read and load_data_from_csv opens the file
\* and skips the header row.
ChooseCsv(text, f) ==
    /\ pc = "menu"
    /\ Strip(text) = <<"2">>
    /\ line' = text
    /\ choice' = Strip(text)
    /\ file' = f
    /\ last_valid' = <<>>
    /\ IF f.status # "ok"
       THEN LoadRaises(f.status, <<>>)
       ELSE IF f.failAt = 1
       THEN LoadRaises("UnicodeDecodeError", <<>>)
       ELSE IF f.rows = <<>>
       THEN LoadRaises("StopIteration", <<>>)
       ELSE /\ rows' = Tail(f.rows)
            /\ rowno' = 2
            /\ marks' = <<>>
            /\ pc' = "csv_loop"
            /\ acquired' = Unbound
            /\ out' = <<>>
            /\ UNCHANGED <<exit_code, marks_data, name>>
    /\ UNCHANGED ret

\* A loop that stops at the first row it cannot accept.
CsvRow_break ==
    /\ pc = "csv_loop"
    /\ rows # <<>>
    /\ rowno # file.failAt
    /\ LET row == Head(rows)
       IN  IF Len(row) >= 2
           THEN LET student_name == Strip(row[1])
                    p == ParseInt(Strip(row[2]))
                IN  IF p.ok
                    THEN IF InRange(p.val)
                         THEN /\ marks' = DictSet(marks, student_name, p.val)
                              /\ UNCHANGED out
                         ELSE /\ out' = Append(out, [kind |-> "skip_range",
                                                      name |-> student_name, mark |-> p.val])
                              /\ UNCHANGED marks
                    ELSE /\ out' = Append(out, [kind |-> "skip_invalid", name |-> student_name])
                         /\ UNCHANGED marks
           ELSE /\ out' = Append(out, [kind |-> "skip_short", row |-> row])
                /\ UNCHANGED marks
    /\ rows' = IF marks' = marks THEN <<>> ELSE Tail(rows)
    /\ rowno' = rowno + 1
    /\ UNCHANGED <<pc, exit_code, line, choice, marks_data, name, file, last_valid,
                   acquired, ret>>

\* One iteration of "for row in reader".
CsvRow ==
    /\ pc = "csv_loop"
    /\ rows # <<>>
    /\ rowno # file.failAt
    /\ LET row == Head(rows)
       IN  IF Len(row) >= 2
           THEN LET student_name == Strip(row[1])
                    p == ParseInt(Strip(row[2]))
                IN  IF p.ok
                    THEN IF InRange(p.val)
                         THEN /\ marks' = DictSet(marks, student_name, p.val)
                              /\ UNCHANGED out
                         ELSE /\ out' = Append(out, [kind |-> "skip_range",
                                                      name |-> student_name, mark |-> p.val])
                              /\ UNCHANGED marks
                    ELSE /\ out' = Append(out, [kind |-> "skip_invalid", name |-> student_name])
                         /\ UNCHANGED marks
           ELSE /\ out' = Append(out, [kind |-> "skip_short", row |-> row])
                /\ UNCHANGED marks
    /\ rows' = Tail(rows)
    /\ rowno' = rowno + 1
    /\ UNCHANGED <<pc, exit_code, line, choice, marks_data, name, file, last_valid,
                   acquired, ret>>

\* Reading the next row raises.
CsvReadError ==
    /\ pc = "csv_loop"
    /\ rows # <<>>
    /\ rowno = file.failAt
    /\ LoadRaises("UnicodeDecodeError", out)
    /\ UNCHANGED <<line, choice, file, last_valid, ret>>

\* The reader is exhausted: the load reports its count and returns marks.
CsvDone ==
    /\ pc = "csv_loop"
    /\ rows = <<>>
    /\ ReturnToMain(Dict(marks), Append(out, [kind |-> "loaded", count |-> Len(marks)]))
    /\ UNCHANGED <<exit_code, line, choice, file, last_valid, ret>>

\* choice == '3'
ChooseExit(text) ==
    /\ pc = "menu"
    /\ Strip(text) = <<"3">>
    /\ line' = text
    /\ choice' = Strip(text)
    /\ out' = <<Msg("goodbye")>>
    /\ exit_code' = 0
    /\ pc' = "exited"
    /\ acquired' = Unbound
    /\ file' = NoFile
    /\ last_valid' = <<>>
    /\ UNCHANGED <<marks_data, marks, name, rows, rowno, ret>>

InvalidChoice_fallthrough(text) ==
    /\ pc = "menu"
    /\ Strip(text) \notin {<<"1">>, <<"2">>, <<"3">>}
    /\ line' = text
    /\ choice' = Strip(text)
    /\ out' = <<Msg("invalid_choice")>> \o main_analyze(marks_data)
    /\ acquired' = Unbound
    /\ file' = NoFile
    /\ last_valid' = <<>>
    /\ UNCHANGED <<pc, exit_code, marks_data, marks, name, rows, rowno, ret>>

\* Any other choice: the message, then "continue".
InvalidChoice(text) ==
    /\ pc = "menu"
    /\ Strip(text) \notin {<<"1">>, <<"2">>, <<"3">>}
    /\ line' = text
    /\ choice' = Strip(text)
    /\ out' = <<Msg("invalid_choice")>>
    /\ acquired' = Unbound
    /\ file' = NoFile
    /\ last_valid' = <<>>
    /\ UNCHANGED <<pc, exit_code, marks_data, marks, name, rows, rowno, ret>>

Next ==
    \/ \E text \in ChoiceInputs : ChooseManual(text)
    \/ \E text \in NameInputs : EnterName(text)
    \/ \E text \in MarkInputs : EnterMark(text)
    \/ \E text \in ChoiceInputs : \E f \in Files : ChooseCsv(text, f)
    \/ CsvRow
    \/ CsvReadError
    \/ CsvDone
    \/ \E text \in ChoiceInputs : ChooseExit(text)
    \/ \E text \in ChoiceInputs : InvalidChoice(text)

Spec == Init /\ [][Next]_vars

(***************************************************************************)
(* The functions called directly, on any store and any score.              *)
(***************************************************************************)
ScoreSamples == {0, 39, 40, 59, 60, 75, 89, 90}

ScoreArgs == (0 - 5)..105

StudentName(i) == <<"s", Digits[i + 1]>>

RECURSIVE MarkSeqs(_)
MarkSeqs(n) ==
    IF n = 0 THEN {<<>>}
    ELSE MarkSeqs(n - 1) \cup
         {Append(q, x) : q \in {m \in MarkSeqs(n - 1) : Len(m) = n - 1}, x \in ScoreSamples}

Stores ==
    {[i \in 1..Len(m) |-> [name |-> StudentName(i), mark |-> m[i]]] : m \in MarkSeqs(MaxStudents)}

\* The argument is a store, or no store when the function takes a score.
FnInit ==
    /\ pc = "call"
    /\ marks_data \in {Unbound} \cup {Dict(d) : d \in Stores}
    /\ exit_code = -1
    /\ line = <<>>
    /\ choice = <<>>
    /\ marks = <<>>
    /\ name = <<>>
    /\ rows = <<>>
    /\ rowno = 0
    /\ file = NoFile
    /\ out = <<>>
    /\ last_valid = <<>>
    /\ acquired = Unbound
    /\ ret = [fn |-> "none"]

FnFrame == <<exit_code, line, choice, marks_data, marks, name, rows, rowno, file,
             last_valid, acquired>>

CallAssignGrade(score) ==
    /\ pc = "call"
    /\ marks_data.state = "unbound"
    /\ ret' = [fn |-> "assign_grade", score |-> score, value |-> assign_grade(score)]
    /\ pc' = "returned"
    /\ UNCHANGED <<FnFrame, out>>

CallMedian ==
    /\ pc = "call"
    /\ marks_data.state = "dict"
    /\ ret' = [fn |-> "calculate_median", value |-> calculate_median(marks_data.items)]
    /\ pc' = "returned"
    /\ UNCHANGED <<FnFrame, out>>

CallGrades ==
    /\ pc = "call"
    /\ marks_data.state = "dict"
    /\ ret' = [fn |-> "calculate_grades_and_distribution",
               value |-> calculate_grades_and_distribution(marks_data.items)]
    /\ pc' = "returned"
    /\ UNCHANGED <<FnFrame, out>>

CallPassFail ==
    /\ pc = "call"
    /\ marks_data.state = "dict"
    /\ out' = print_pass_fail_summary(marks_data.items)
    /\ ret' = [fn |-> "print_pass_fail_summary"]
    /\ pc' = "returned"
    /\ UNCHANGED FnFrame

FnNext ==
    \/ \E score \in ScoreArgs : CallAssignGrade(score)
    \/ CallMedian
    \/ CallGrades
    \/ CallPassFail

FnSpec == FnInit /\ [][FnNext]_vars

(***************************************************************************)
(* Properties.                                                             *)
(***************************************************************************)
ReportKinds == <<"summary", "distribution", "pass_fail", "table">>

Kinds(printed) == [i \in 1..Len(printed) |-> printed[i].kind]

HasReport(printed) ==
    \E i \in 1..Len(printed) :
        printed[i].kind \in {"summary", "summary_no_data", "distribution", "pass_fail", "table"}

\* The printed lines end with the four reports, in order, and hold no other report.
FourReportsInOrder(printed) ==
    /\ Len(printed) >= 4
    /\ SubSeq(Kinds(printed), Len(printed) - 3, Len(printed)) = ReportKinds
    /\ ~HasReport(SubSeq(printed, 1, Len(printed) - 4))

CycleDone == pc = "menu" /\ choice \in {<<"1">>, <<"2">>}

\* C1: after an acquisition (choice 1 or 2) the four reports are printed, in
\* order, exactly when the acquired store is neither None nor empty; otherwise
\* a "no data" notice is printed, no report is printed and the menu is shown.
C1_ReportsOrNoDataNotice ==
    CycleDone =>
        IF Truthy(acquired)
        THEN FourReportsInOrder(out)
        ELSE /\ \E i \in 1..Len(out) : out[i].kind = "no_data"
             /\ ~HasReport(out)

C2_State ==
    /\ pc \in {"menu", "name_prompt", "mark_prompt", "csv_loop", "exited"}
    /\ exit_code \in {-1, 0}
    /\ (pc = "exited") <=> (exit_code = 0)
    /\ pc = "exited" => choice = <<"3">>

C2_Step ==
    /\ (pc # "exited" /\ pc' = "exited") => (pc = "menu" /\ Strip(line') = <<"3">>)
    /\ (pc = "menu" /\ Strip(line') \notin {<<"1">>, <<"2">>, <<"3">>}) => pc' = "menu"
    /\ (pc = "menu" /\ Strip(line') = <<"2">> /\ (file'.status # "ok" \/ file'.rows = <<>>))
          => pc' = "menu"
    /\ (pc = "csv_loop" /\ pc' # "csv_loop") => pc' = "menu"

\* C2: the process never ends abnormally: it ends only at menu choice "3",
\* with exit code 0; an invalid menu choice and a failed file load lead back
\* to the menu prompt.
C2_NeverAbnormal == [](C2_State) /\ [][C2_Step]_vars

C2_Witness ==
    /\ CycleDone
    /\ choice = <<"2">>
    /\ file.status = "ok"
    /\ file.rows = <<>>
    /\ acquired = NoneVal
    /\ exit_code = -1

AllMarksInRange(d) == \A i \in 1..Len(d) : d[i].mark \in 0..100

\* C3: on both acquisition paths every score in the store is an integer in
\* 0..100, whatever was typed or read before.
C3_ScoresInRange ==
    /\ AllMarksInRange(marks)
    /\ AllMarksInRange(marks_data.items)
    /\ AllMarksInRange(acquired.items)

C3_Witness ==
    /\ pc = "name_prompt"
    /\ Len(marks) > 0
    /\ \E i \in 1..Len(out) : out[i].kind = "mark_range"
    /\ \E i \in 1..Len(out) : out[i].kind = "mark_invalid"

\* The rows after the header of the loaded file.
BodyRows == Tail(file.rows)

GoodRow(row) ==
    /\ Len(row) >= 2
    /\ ParseInt(row[2]).ok
    /\ ParseInt(row[2]).val \in 0..100

GoodIndexes == {i \in 1..Len(BodyRows) : GoodRow(BodyRows[i])}

LastGood(k) ==
    CHOOSE i \in GoodIndexes :
        /\ Strip(BodyRows[i][1]) = k
        /\ \A j \in GoodIndexes : Strip(BodyRows[j][1]) = k => j <= i

SkipCount(printed) ==
    Cardinality({i \in 1..Len(printed) :
                    printed[i].kind \in {"skip_range", "skip_invalid", "skip_short"}})

LoadedReadableFile ==
    /\ CycleDone
    /\ choice = <<"2">>
    /\ file.status = "ok"
    /\ file.failAt = 0
    /\ file.rows # <<>>

\* C4: loading a readable file drops the header row and handles every other
\* row: a row that is too short, not an integer or out of 0..100 is skipped
\* with a warning and the load goes on, so the store returned holds exactly
\* the (trimmed) names of the rows with an integer in 0..100 in field two,
\* each with the mark of its last such row; header + [Eve,101], [Finn,abc],
\* [Gus,77] gives {Gus: 77}.
C4_LoadKeepsGoodRows ==
    LoadedReadableFile =>
        /\ acquired.state = "dict"
        /\ Keys(acquired.items) = {Strip(BodyRows[i][1]) : i \in GoodIndexes}
        /\ Len(acquired.items) = Cardinality(Keys(acquired.items))
        /\ \A k \in Keys(acquired.items) :
              Lookup(acquired.items, k) = ParseInt(BodyRows[LastGood(k)][2]).val
        /\ SkipCount(out) = Len(BodyRows) - Cardinality(GoodIndexes)
        /\ file.rows = ScenarioRows => acquired.items = <<[name |-> Gus, mark |-> 77]>>

C4_Witness ==
    /\ LoadedReadableFile
    /\ file.rows = ScenarioRows
    /\ SkipCount(out) = 2
    /\ acquired.items = <<[name |-> Gus, mark |-> 77]>>

TableOf(d) == [i \in 1..Len(d) |-> [name |-> d[i].name, mark |-> d[i].mark]]

\* C5: the reports of a menu cycle come from the store acquired in that
\* cycle; a cycle that acquires nothing prints no report, whatever an
\* earlier cycle acquired.
C5_ReportsFromThisCycle ==
    /\ HasReport(out) =>
          /\ Truthy(acquired)
          /\ choice \in {<<"1">>, <<"2">>}
          /\ \A i \in 1..Len(out) :
                /\ out[i].kind = "summary" => out[i].count = Len(acquired.items)
                /\ out[i].kind = "pass_fail" =>
                      out[i].passed + out[i].failed = Len(acquired.items)
                /\ out[i].kind = "table" =>
                      [j \in 1..Len(out[i].rows) |->
                          [name |-> out[i].rows[j].name, mark |-> out[i].rows[j].mark]]
                      = TableOf(acquired.items)
    /\ ~Truthy(acquired) => ~HasReport(out)

C5_Witness ==
    /\ pc = "menu"
    /\ choice = <<"4">>
    /\ acquired = Unbound
    /\ Truthy(marks_data)
    /\ out = <<[kind |-> "invalid_choice"]>>

MatchesLastValid(d) ==
    /\ Keys(d) = DOMAIN last_valid
    /\ Len(d) = Cardinality(Keys(d))
    /\ \A k \in Keys(d) : Lookup(d, k) = last_valid[k]

ValidMark(text) == ParseInt(text).ok /\ ParseInt(text).val \in 0..100

C6_State ==
    /\ pc \in {"name_prompt", "mark_prompt"} => MatchesLastValid(marks)
    /\ (pc = "menu" /\ choice = <<"1">>) =>
          /\ acquired.state = "dict"
          /\ marks_data = acquired
          /\ MatchesLastValid(acquired.items)

C6_Step ==
    /\ (pc = "mark_prompt" /\ ~ValidMark(line')) =>
          /\ marks' = marks
          /\ name' = name
          /\ pc' = "mark_prompt"
    /\ (pc = "mark_prompt" /\ ValidMark(line')) =>
          /\ pc' = "name_prompt"
          /\ Keys(marks') = Keys(marks) \cup {name}
          /\ Lookup(marks', name) = ParseInt(line').val
          /\ last_valid'[name] = ParseInt(line').val
          /\ \A k \in Keys(marks) \ {name} : Lookup(marks', k) = Lookup(marks, k)
    /\ (pc = "name_prompt" /\ Lower(Strip(line')) = <<"d", "o", "n", "e">>) =>
          /\ pc' = "menu"
          /\ acquired' = Dict(marks)

\* C6: in manual entry a mark that is not an integer in 0..100 leaves the
\* store as it is and asks again for the same name; at "done" the store
\* returned maps every entered name to the last valid mark typed for it, so
\* a later entry replaces the earlier one and names stay unique.
C6_ManualEntry == [](C6_State) /\ [][C6_Step]_vars

C6_Witness ==
    /\ pc = "name_prompt"
    /\ Len(marks) = 2
    /\ name = marks[1].name
    /\ ValidMark(line)
    /\ marks[1].mark = ParseInt(line).val
    /\ \E i \in 1..Len(out) : out[i].kind \in {"mark_range", "mark_invalid"}

Returned(fn) == pc = "returned" /\ ret.fn = fn

LetterSet == {"A", "B", "C", "D", "F"}

\* C7: the grade mapping has exactly the names of the store, each with the
\* grade of its score; the histogram has exactly the keys A, B, C, D, F, each
\* counting the records of that grade, and the counts sum to the number of
\* records.
C7_GradesAndHistogram ==
    Returned("calculate_grades_and_distribution") =>
        LET d == marks_data.items
            g == ret.value.grades
            h == ret.value.distribution
        IN  /\ Len(g) = Len(d)
            /\ {g[i].name : i \in 1..Len(g)} = Keys(d)
            /\ \A i \in 1..Len(d) : GradeGet(g, d[i].name) = assign_grade(d[i].mark)
            /\ DOMAIN h = LetterSet
            /\ \A l \in LetterSet :
                  h[l] = Cardinality({i \in 1..Len(d) : assign_grade(d[i].mark) = l})
            /\ h["A"] + h["B"] + h["C"] + h["D"] + h["F"] = Len(d)

C7_Witness ==
    /\ Returned("calculate_grades_and_distribution")
    /\ Len(marks_data.items) = 3
    /\ ret.value.distribution["F"] = 2
    /\ ret.value.distribution["A"] = 1
    /\ ret.value.distribution["C"] = 0

\* C8: assign_grade gives A from 90 up, B for 80..89, C for 70..79, D for
\* 60..69 and F below 60; so 89 is B, 90 is A, 59 is F and 60 is D.
C8_AssignGradeBands ==
    Returned("assign_grade") =>
        LET s == ret.score
            v == ret.value
        IN  /\ v \in LetterSet
            /\ (v = "A") <=> (s >= 90)
            /\ (v = "B") <=> (s \in 80..89)
            /\ (v = "C") <=> (s \in 70..79)
            /\ (v = "D") <=> (s \in 60..69)
            /\ (v = "F") <=> (s < 60)
            /\ s = 89 => v = "B"
            /\ s = 90 => v = "A"
            /\ s = 59 => v = "F"
            /\ s = 60 => v = "D"

C8_Witness ==
    /\ Returned("assign_grade")
    /\ ret.score = 90
    /\ ret.value = "A"

InList(r, l) == \E j \in 1..Len(l) : l[j] = r

\* C9: the pass/fail report splits the records into passed (score >= 40, so
\* 40 passes) and failed (score < 40): each record is in exactly one list,
\* the two counts add up to the number of records, and every failed record
\* is listed with its name and score.
C9_PassFailPartition ==
    Returned("print_pass_fail_summary") =>
        LET d == marks_data.items
            passed == passed_students(d)
            failed == failed_students(d)
            shown == out[1]
        IN  /\ \A i \in 1..Len(d) :
                  /\ InList(d[i], passed) <=> d[i].mark >= 40
                  /\ InList(d[i], failed) <=> d[i].mark < 40
                  /\ InList(d[i], passed) # InList(d[i], failed)
            /\ Len(passed) + Len(failed) = Len(d)
            /\ shown.kind = "pass_fail"
            /\ shown.passed = Cardinality({i \in 1..Len(d) : d[i].mark >= 40})
            /\ shown.failed = Cardinality({i \in 1..Len(d) : d[i].mark < 40})
            /\ shown.passed + shown.failed = Len(d)
            /\ Len(shown.failed_list) = shown.failed
            /\ \A i \in 1..Len(d) : d[i].mark < 40 => InList(d[i], shown.failed_list)

C9_Witness ==
    /\ Returned("print_pass_fail_summary")
    /\ \E i \in 1..Len(marks_data.items) : marks_data.items[i].mark = 40
    /\ \E i \in 1..Len(marks_data.items) : marks_data.items[i].mark = 39
    /\ out[1].passed = 2
    /\ out[1].failed = 1

\* x is the k-th smallest of the values v.
IsKthSmallest(x, k, v) ==
    /\ \E i \in 1..Len(v) : v[i] = x
    /\ Cardinality({i \in 1..Len(v) : v[i] < x}) < k
    /\ k <= Cardinality({i \in 1..Len(v) : v[i] <= x})

\* C10: calculate_median is the median of the scores: the middle value for
\* an odd number of records, the mean of the two central values for an even
\* number (twice the result is their sum), and 0 for the empty store.
C10_Median ==
    Returned("calculate_median") =>
        LET v == Values(marks_data.items)
            n == Len(v)
            m == ret.value
        IN  /\ m.den > 0
            /\ n = 0 => m.num = 0
            /\ n % 2 = 1 => (m.den = 1 /\ IsKthSmallest(m.num, (n + 1) \div 2, v))
            /\ (n > 0 /\ n % 2 = 0) =>
                  \E a, b \in {v[i] : i \in 1..n} :
                      /\ IsKthSmallest(a, n \div 2, v)
                      /\ IsKthSmallest(b, (n \div 2) + 1, v)
                      /\ 2 * m.num = (a + b) * m.den

C10_Witness ==
    /\ Returned("calculate_median")
    /\ Len(marks_data.items) = 4
    /\ ret.value.den = 2
    /\ Values(marks_data.items) = <<90, 39, 60, 75>>

====
